---- MODULE Spec2Model ----
(***************************************************************************)
(* Model of src/main.py: the weather-station ingestion pipeline.  One run  *)
(* of main() checks the environment, fetches the current observation,      *)
(* normalises its timestamp, reads the last logged timestamp of the sheet, *)
(* applies the duplicate/too-soon guard and appends one row.               *)
(*                                                                         *)
(* Time is counted in ticks, TicksPerSec ticks to the second, so that an   *)
(* observation may carry a fraction of a second that strftime drops.       *)
(* An aware datetime is its UTC instant in ticks; a naive one is its wall  *)
(* clock reading in ticks.                                                 *)
(***************************************************************************)
EXTENDS Integers, Sequences, FiniteSets, TLC

VARIABLES cfg, log, run

vars == <<cfg, log, run>>

(***************************************************************************)
(* Bounds of the model.                                                    *)
(***************************************************************************)
TicksPerSec == 2
MaxSec == 2
StdOffsetSec == 1
DstShiftSec == 1
TransitionSec == 1
MaxWindow == 2
MaxInitRows == 2
MaxRows == 3
MaxTracedRows == 2
MaxFreshRows == 4

Procs == {"a", "b"}
SeqProcs == {"a"}

MaxTick == MaxSec * TicksPerSec + (TicksPerSec - 1)
Ticks == 0..MaxTick
StdOffset == StdOffsetSec * TicksPerSec
DstShift == DstShiftSec * TicksPerSec
Transition == TransitionSec * TicksPerSec
Windows == (-1)..MaxWindow
Zones == {"fixed", "fallback"}

(***************************************************************************)
(* Optional datetime (Optional[datetime] of the source).                   *)
(***************************************************************************)
NoneDT == [ok |-> FALSE, t |-> 0]
Some(u) == [ok |-> TRUE, t |-> u]

(***************************************************************************)
(* Timestamp values as they arrive from the API or sit in column A.        *)
(*   absent : the key is missing          null  : JSON null / None         *)
(*   empty  : the empty string            space : whitespace only          *)
(*   bad    : text that dateutil rejects                                   *)
(*   naive  : date and time without a zone, wall clock v                   *)
(*   aware  : date and time with a UTC offset, instant v                   *)
(***************************************************************************)
Text(k, v) == [k |-> k, v |-> v]
Absent == Text("absent", 0)
Null == Text("null", 0)
Empty == Text("empty", 0)
Space == Text("space", 0)
Bad == Text("bad", 0)

(***************************************************************************)
(* The configured zone TZ: a fixed-offset zone, or a zone that leaves      *)
(* daylight time at the instant Transition (clocks go back by DstShift).   *)
(***************************************************************************)
UtcOffset(zone, u) ==
    IF zone = "fallback" /\ u < Transition THEN StdOffset + DstShift ELSE StdOffset

\* dt.astimezone(TZ), read as wall clock fields
ToWall(zone, u) == u + UtcOffset(zone, u)

\* TZ.localize(dt), is_dst=False: an ambiguous wall time is taken as standard time
Localize(zone, w) ==
    IF zone = "fallback" /\ w < Transition + StdOffset
    THEN w - (StdOffset + DstShift)
    ELSE w - StdOffset

\* the timestamp formatted without the conversion to TZ (UTC wall clock)
StrftimeUtc(zone, u) == Text("naive", (u \div TicksPerSec) * TicksPerSec)

\* obs_ts.strftime("%Y-%m-%d %H:%M:%S"): wall clock, fraction of second dropped
Strftime(zone, u) == Text("naive", (ToWall(zone, u) \div TicksPerSec) * TicksPerSec)

parse_any_datetime(zone, value) ==
    IF value.k \in {"absent", "null", "empty"} THEN NoneDT
    ELSE IF value.k = "naive" THEN Some(Localize(zone, value.v))
    ELSE IF value.k = "aware" THEN Some(value.v)
    ELSE NoneDT

(***************************************************************************)
(* Environment variables read at import time.                              *)
(***************************************************************************)
EnvKeys == {"GOOGLE_SHEET_ID", "GOOGLE_SERVICE_ACCOUNT_FILE", "WCOM_API_KEY", "STATION_ID"}
EnvRaw == {"unset", "spaces", "set"}

\* os.getenv(k, "").strip()
Strip(raw) == IF raw = "set" THEN "v" ELSE ""

\* require_env with STATION_ID left out of its list
MissingEnvButStation(env) == {k \in EnvKeys \ {"STATION_ID"} : Strip(env[k]) = ""}

\* the list `missing` of require_env is non-empty
MissingEnv(env) == {k \in EnvKeys : Strip(env[k]) = ""}

require_env_raises(env) == MissingEnv(env) # {}

(***************************************************************************)
(* Upstream responses.                                                     *)
(***************************************************************************)
MetricKeys == {"temp", "windSpeed", "windGust", "precipRate", "precipTotal", "pressure"}

NoFields == [k \in MetricKeys |-> "absent"]
AllFields == [k \in MetricKeys |-> "7"]
SomeFields == [k \in MetricKeys |-> IF k = "temp" THEN "7" ELSE IF k = "pressure" THEN "null" ELSE "absent"]

Metric(t, fields) == [t |-> t, fields |-> fields]
MetricShapes ==
    { Metric("obj", AllFields), Metric("obj", SomeFields), Metric("obj", NoFields),
      Metric("absent", NoFields), Metric("null", NoFields), Metric("nonobj", NoFields) }

Obs(t, time, metric, winddir, humidity) ==
    [t |-> t, obsTimeLocal |-> time, metric |-> metric, winddir |-> winddir, humidity |-> humidity]
NonObjItem == Obs("nonobj", Absent, Metric("absent", NoFields), "absent", "absent")

Walls == {u + UtcOffset(z, u) : u \in Ticks, z \in Zones}
TimeTexts ==
    {Text("aware", u) : u \in Ticks} \cup {Text("naive", w) : w \in Walls}
        \cup {Absent, Null, Empty, Space, Bad}
ShapeTime == Text("aware", MaxTick)

Items ==
    {Obs("obj", tt, Metric("obj", AllFields), "7", "7") : tt \in TimeTexts}
        \cup {Obs("obj", ShapeTime, m, "absent", "absent") : m \in MetricShapes}
        \cup {Obs("obj", ShapeTime, Metric("obj", SomeFields), "null", "7"), NonObjItem}

Observations(t, items) == [t |-> t, items |-> items]
ObservationsValues ==
    {Observations(t, <<>>) : t \in {"absent", "null", "emptylist", "nonlist"}}
        \cup {Observations("list", <<i>>) : i \in Items}
        \cup {Observations("list", <<i, j>>) : i \in {Obs("obj", Text("aware", Transition), Metric("obj", AllFields), "7", "7")},
                                               j \in {NonObjItem, Obs("obj", Text("aware", MaxTick), Metric("obj", NoFields), "7", "7")}}

Json(t, observations) == [t |-> t, observations |-> observations]
NoneJson == Json("none", Observations("absent", <<>>))
JsonValues ==
    {Json(t, Observations("absent", <<>>)) : t \in {"falsy", "emptyobj", "nonobj"}}
        \cup {Json("obj", o) : o \in ObservationsValues}

Response(raised, status, text, json) == [raised |-> raised, status |-> status, text |-> text, json |-> json]
RequestFailed == Response(TRUE, 0, "empty", NoneJson)
Responses ==
    {RequestFailed}
        \cup {Response(FALSE, s, x, NoneJson) : s \in {204, 200, 500}, x \in {"empty", "nonjson"}}
        \cup {Response(FALSE, 500, "json", Json("obj", Observations("emptylist", <<>>)))}
        \cup {Response(FALSE, 200, "json", j) : j \in JsonValues}

\* safe_fetch_current after requests.get returned: (status_code, json_or_none)
safe_fetch_current(r) ==
    IF r.status = 204 THEN [status |-> r.status, data |-> NoneJson]
    ELSE IF r.status # 200 THEN [status |-> r.status, data |-> NoneJson]
    ELSE IF r.text = "empty" THEN [status |-> r.status, data |-> NoneJson]
    ELSE IF r.text = "json" THEN [status |-> r.status, data |-> r.json]
    ELSE [status |-> r.status, data |-> NoneJson]

(***************************************************************************)
(* main(), lines 143-168: what the run does with the fetched response      *)
(* before it touches the sheet.  "Proceed" means the run goes on to open   *)
(* the sheet; "Crash" is an exception nothing catches.                     *)
(***************************************************************************)
Falsy(data) == data.t \in {"none", "falsy", "emptyobj"}

FirstObs(data) == data.observations.items[1]

\* the classification without the test for a missing obsTimeLocal
ClassifyKeepsMissingTime(zone, fetched) ==
    IF fetched.status = 204 THEN "NoData"
    ELSE IF fetched.status # 200 \/ Falsy(fetched.data) THEN "ApiError"
    ELSE IF fetched.data.t # "obj" THEN "Crash"
    ELSE IF fetched.data.observations.t \in {"absent", "null", "emptylist"} THEN "EmptyObservations"
    ELSE IF fetched.data.observations.t # "list" THEN "Crash"
    ELSE IF FirstObs(fetched.data).t # "obj" THEN "Crash"
    ELSE "Proceed"

Classify(zone, fetched) ==
    IF fetched.status = 204 THEN "NoData"
    ELSE IF fetched.status # 200 \/ Falsy(fetched.data) THEN "ApiError"
    ELSE IF fetched.data.t # "obj" THEN "Crash"
    ELSE IF fetched.data.observations.t \in {"absent", "null", "emptylist"} THEN "EmptyObservations"
    ELSE IF fetched.data.observations.t # "list" THEN "Crash"
    ELSE IF FirstObs(fetched.data).t # "obj" THEN "Crash"
    ELSE IF FirstObs(fetched.data).obsTimeLocal.k \in {"absent", "null", "empty"} THEN "MissingTimestamp"
    ELSE IF ~parse_any_datetime(zone, FirstObs(fetched.data).obsTimeLocal).ok THEN "UnparsableTimestamp"
    ELSE "Proceed"

(***************************************************************************)
(* The sheet: row 1 is the header, column A holds the timestamp.           *)
(***************************************************************************)
Header == Text("header", 0)
HeaderRow == <<Header, "Temp", "WindSpeed", "WindGust", "WindDir", "RainRate", "RainTotal", "Pressure", "Humidity">>
SheetRow(cell) == <<cell, "7", "7", "7", "7", "7", "7", "7", "7">>

\* str(row[0]).strip() is empty
IsBlank(cell) == cell.k \in {"empty", "space"}

MaxOf(S) == CHOOSE x \in S : \A y \in S : y <= x

MinOf(S) == CHOOSE x \in S : \A y \in S : x <= y

\* the scan without reversed(): the first non-blank cell is taken
get_first_logged_timestamp(zone, values) ==
    IF Len(values) < 2 THEN NoneDT
    ELSE LET filled == {i \in 2..Len(values) : ~IsBlank(values[i][1])}
         IN  IF filled = {} THEN NoneDT
             ELSE parse_any_datetime(zone, values[MinOf(filled)][1])

\* the read that takes the last row, blank or not
get_last_row_timestamp(zone, values) ==
    IF Len(values) < 2 THEN NoneDT
    ELSE parse_any_datetime(zone, values[Len(values)][1])

get_last_logged_timestamp(zone, values) ==
    IF Len(values) < 2 THEN NoneDT
    ELSE LET filled == {i \in 2..Len(values) : ~IsBlank(values[i][1])}
         IN  IF filled = {} THEN NoneDT
             ELSE parse_any_datetime(zone, values[MaxOf(filled)][1])

(***************************************************************************)
(* main(), lines 182-191: the duplicate / too-soon guard.                  *)
(***************************************************************************)
\* the guard without its "not newer" test
GuardNoOrder(obs_ts, last_ts, window) ==
    IF last_ts.ok
    THEN IF obs_ts - last_ts.t < window * TicksPerSec THEN "TooSoon" ELSE "Admit"
    ELSE "Admit"

\* the guard with a window one second too short
GuardShortWindow(obs_ts, last_ts, window) ==
    IF last_ts.ok
    THEN IF obs_ts <= last_ts.t THEN "NotNewer"
         ELSE IF obs_ts - last_ts.t < (window - 1) * TicksPerSec THEN "TooSoon"
         ELSE "Admit"
    ELSE "Admit"

\* the guard that also skips an observation exactly one window later
GuardExclusiveWindow(obs_ts, last_ts, window) ==
    IF last_ts.ok
    THEN IF obs_ts <= last_ts.t THEN "NotNewer"
         ELSE IF obs_ts - last_ts.t <= window * TicksPerSec THEN "TooSoon"
         ELSE "Admit"
    ELSE "Admit"

\* the guard that treats "no last timestamp" as "nothing to compare with: skip"
GuardFailClosed(obs_ts, last_ts, window) ==
    IF last_ts.ok
    THEN IF obs_ts <= last_ts.t THEN "NotNewer"
         ELSE IF obs_ts - last_ts.t < window * TicksPerSec THEN "TooSoon"
         ELSE "Admit"
    ELSE "NotNewer"

Guard(obs_ts, last_ts, window) ==
    IF last_ts.ok
    THEN IF obs_ts <= last_ts.t THEN "NotNewer"
         ELSE IF obs_ts - last_ts.t < window * TicksPerSec THEN "TooSoon"
         ELSE "Admit"
    ELSE "Admit"

(***************************************************************************)
(* main(), lines 194-206: the row.  d.get(k, "") of a dict.                *)
(***************************************************************************)
Get(v) == IF v = "absent" THEN "" ELSE v

MetricOrEmpty(obs) == IF obs.metric.t = "obj" THEN obs.metric.fields ELSE NoFields

\* m.get(...) raises when "metric" is a truthy value that is no dict
MetricRaises(obs) == obs.metric.t = "nonobj"

RowOf(timestamp_str, obs) ==
    LET m == MetricOrEmpty(obs)
    IN  << timestamp_str, Get(m["temp"]), Get(m["windSpeed"]), Get(m["windGust"]),
           Get(obs.winddir), Get(m["precipRate"]), Get(m["precipTotal"]),
           Get(m["pressure"]), Get(obs.humidity) >>

\* an append that writes the row twice
append_row_twice(values, row) == Append(Append(values, row), row)

\* an append that lands on the last row instead of after it
append_row_over_last(values, row) == [values EXCEPT ![Len(values)] = row]

\* ws.append_row(row): the store adds the row after the last one
append_row(values, row) == Append(values, row)

(***************************************************************************)
(* State.                                                                  *)
(*   cfg : the settings read at import (env, DUP_WINDOW_SEC, TZ); trace    *)
(*         tells whether a run remembers the response and the outcome of   *)
(*         the run before it (bookkeeping only); rows is the number of     *)
(*         data rows after which no further run is started; inputs names   *)
(*         the set the upstream responses are drawn from                   *)
(*   log : the sheet, get_all_values() order, header first                 *)
(*   run : per invocation of main(), its position and local variables,    *)
(*         with the bookkeeping the properties are stated on (log0 the     *)
(*         sheet when the run began, seen the number of rows it read)      *)
(***************************************************************************)
NoResponse == Response(FALSE, 0, "empty", NoneJson)
NoRow == <<>>

Skips == {"NoData", "ApiError", "EmptyObservations", "MissingTimestamp",
          "UnparsableTimestamp", "NotNewer", "TooSoon"}
EarlySkips == {"NoData", "ApiError", "EmptyObservations", "MissingTimestamp",
               "UnparsableTimestamp"}
Fatal == {"ConfigError", "StoreError", "Crash"}

NewRun(values, prevOutcome, prevResp) ==
    [ pc |-> "idle", outcome |-> "none", resp |-> prevResp,
      obs_ts |-> 0, last_ts |-> NoneDT, row |-> NoRow, log0 |-> values,
      netCalls |-> 0, opens |-> 0, reads |-> 0, appends |-> 0, decisions |-> 0, seen |-> 0,
      prevOutcome |-> prevOutcome, same |-> FALSE ]

\* main() returns (a decision was printed) or raises
Finish(r, outcome) ==
    [r EXCEPT !.pc = "done", !.outcome = outcome,
              !.decisions = IF outcome \in Skips \cup {"Admitted"} THEN @ + 1 ELSE @]

Monotone(zone, values) ==
    \A i, j \in 2..Len(values) :
        (i < j /\ parse_any_datetime(zone, values[i][1]).ok
               /\ parse_any_datetime(zone, values[j][1]).ok)
            => parse_any_datetime(zone, values[i][1]).t <= parse_any_datetime(zone, values[j][1]).t

InitCells == {Empty, Bad} \cup {Text("naive", w) : w \in {x \in Walls : x % TicksPerSec = 0}}

RECURSIVE SeqsUpTo(_, _)
SeqsUpTo(S, n) ==
    IF n = 0 THEN {<<>>}
    ELSE LET shorter == SeqsUpTo(S, n - 1)
         IN  shorter \cup {Append(q, x) : q \in shorter, x \in S}

InitLogs(zone, n) ==
    {l \in {<<HeaderRow>> \o [i \in 1..Len(q) |-> SheetRow(q[i])] : q \in SeqsUpTo(InitCells, n)} :
        Monotone(zone, l)}

Init ==
    /\ cfg \in [env : [EnvKeys -> EnvRaw], window : Windows, zone : Zones,
                trace : {FALSE}, rows : {MaxRows}, inputs : {"all"}]
    /\ log \in InitLogs(cfg.zone, MaxInitRows)
    /\ run = [p \in Procs |-> NewRun(log, "none", NoResponse)]

Active(p) == run[p].pc \notin {"idle", "done"}

\* main() is entered: require_env()
Start(p) ==
    /\ ~Active(p)
    /\ Len(log) + Cardinality({q \in Procs : Active(q)}) < cfg.rows + 1
    /\ LET r == [NewRun(log, IF cfg.trace THEN run[p].outcome ELSE "none",
                              IF cfg.trace THEN run[p].resp ELSE NoResponse)
                    EXCEPT !.pc = "fetch"]
       IN  run' = [run EXCEPT ![p] = IF require_env_raises(cfg.env)
                                      THEN Finish(r, "ConfigError")
                                      ELSE r]
    /\ UNCHANGED <<cfg, log>>

\* lines 141-172: the request, the classification and the normalised timestamp
AfterFetch(r, resp) ==
    LET r1 == [r EXCEPT !.resp = resp, !.netCalls = @ + 1, !.same = (resp = r.resp)]
        c  == Classify(cfg.zone, safe_fetch_current(resp))
    IN  IF resp.raised THEN Finish(r1, "Crash")
        ELSE IF c = "Proceed"
             THEN [r1 EXCEPT !.pc = "open",
                             !.obs_ts = parse_any_datetime(cfg.zone, FirstObs(resp.json).obsTimeLocal).t]
             ELSE Finish(r1, c)

\* the responses a request may get: all of them, or, where two invocations
\* overlap, "no data" and the well-formed observations with an explicit offset
ObservationResponses ==
    {Response(FALSE, 204, "empty", NoneJson)}
        \cup {Response(FALSE, 200, "json",
                       Json("obj", Observations("list", <<Obs("obj", Text("aware", u), Metric("obj", AllFields), "7", "7")>>))) :
                  u \in Ticks}

Inputs == IF cfg.inputs = "all" THEN Responses ELSE ObservationResponses

Fetch(p) ==
    /\ run[p].pc = "fetch"
    /\ \E resp \in Inputs : run' = [run EXCEPT ![p] = AfterFetch(run[p], resp)]
    /\ UNCHANGED <<cfg, log>>

\* lines 175-177: get_gspread_client, open_by_key, worksheet
\* an open that is tried a second time when it fails
AfterOpenRetryOnce(r, ok) ==
    LET r1 == [r EXCEPT !.opens = @ + 1]
    IN  IF ok THEN [r1 EXCEPT !.pc = "read"]
        ELSE IF r.opens = 0 THEN r1
        ELSE Finish(r1, "StoreError")

\* an open whose failure is caught and reported as a skip
AfterOpenSkipsOnFailure(r, ok) ==
    LET r1 == [r EXCEPT !.opens = @ + 1]
    IN  IF ok THEN [r1 EXCEPT !.pc = "read"] ELSE Finish(r1, "ApiError")

AfterOpen(r, ok) ==
    LET r1 == [r EXCEPT !.opens = @ + 1]
    IN  IF ok THEN [r1 EXCEPT !.pc = "read"] ELSE Finish(r1, "StoreError")

OpenSheet(p) ==
    /\ run[p].pc = "open"
    /\ \E ok \in BOOLEAN : run' = [run EXCEPT ![p] = AfterOpen(run[p], ok)]
    /\ UNCHANGED <<cfg, log>>

\* lines 180-206: read the last timestamp, guard, build the row
AfterRead(r, ok, values) ==
    LET r1   == [r EXCEPT !.reads = @ + 1]
        last == get_last_logged_timestamp(cfg.zone, values)
        g    == Guard(r.obs_ts, last, cfg.window)
        obs  == FirstObs(r.resp.json)
        r2   == [r1 EXCEPT !.last_ts = last, !.seen = Len(values)]
    IN  IF ~ok THEN Finish(r1, "StoreError")
        ELSE IF g # "Admit" THEN Finish(r2, g)
        ELSE IF MetricRaises(obs) THEN Finish(r2, "Crash")
        ELSE [r2 EXCEPT !.pc = "append", !.row = RowOf(Strftime(cfg.zone, r.obs_ts), obs)]

ReadLog(p) ==
    /\ run[p].pc = "read"
    /\ \E ok \in BOOLEAN : run' = [run EXCEPT ![p] = AfterRead(run[p], ok, log)]
    /\ UNCHANGED <<cfg, log>>

\* lines 209-210: ws.append_row(row), then the success message
AppendRow(p) ==
    /\ run[p].pc = "append"
    /\ \E ok \in BOOLEAN :
          LET r1 == [run[p] EXCEPT !.appends = @ + 1]
          IN  IF ok
              THEN /\ log' = append_row(log, run[p].row)
                   /\ run' = [run EXCEPT ![p] = Finish(r1, "Admitted")]
              ELSE /\ log' = log
                   /\ run' = [run EXCEPT ![p] = Finish(r1, "StoreError")]
    /\ UNCHANGED cfg

Step(p) == Start(p) \/ Fetch(p) \/ OpenSheet(p) \/ ReadLog(p) \/ AppendRow(p)

\* runs of main() that do not overlap
Next == \E p \in SeqProcs : Step(p)

Spec == Init /\ [][Next]_vars

\* the same runs, traced, on a shorter sheet
InitTraced ==
    /\ cfg \in [env : [EnvKeys -> {"set"}], window : Windows, zone : Zones,
                trace : {TRUE}, rows : {MaxTracedRows}, inputs : {"all"}]
    /\ log \in InitLogs(cfg.zone, MaxTracedRows - 1)
    /\ run = [p \in Procs |-> NewRun(log, "none", NoResponse)]

SpecTraced == InitTraced /\ [][Next]_vars

\* a run that was entered goes on: main() is synchronous, each of its calls
\* returns or raises
Continue(p) == Fetch(p) \/ OpenSheet(p) \/ ReadLog(p) \/ AppendRow(p)

SpecFair == Init /\ [][Next]_vars /\ \A p \in SeqProcs : WF_vars(Continue(p))

\* two invocations of main() that may overlap; each read and each append of
\* the sheet is one atomic step of the store
InitOverlap ==
    /\ cfg \in [env : [EnvKeys -> {"set"}], window : Windows, zone : Zones,
                trace : {FALSE}, rows : {MaxRows}, inputs : {"observations"}]
    /\ log \in InitLogs(cfg.zone, 1)
    /\ run = [p \in Procs |-> NewRun(log, "none", NoResponse)]

NextOverlap == \E p \in Procs : Step(p)

SpecOverlap == InitOverlap /\ [][NextOverlap]_vars

\* a fresh sheet that holds the header row only, a window of one second or more
InitFresh ==
    /\ cfg \in [env : [EnvKeys -> {"set"}], window : 1..MaxWindow, zone : Zones,
                trace : {FALSE}, rows : {MaxFreshRows}, inputs : {"all"}]
    /\ log = <<HeaderRow>>
    /\ run = [p \in Procs |-> NewRun(log, "none", NoResponse)]

SpecFresh == InitFresh /\ [][Next]_vars

(***************************************************************************)
(* Properties.                                                             *)
(***************************************************************************)
\* the instants of the parsable cells of column A, header excluded
ParsedTimes(zone, values) ==
    {parse_any_datetime(zone, values[i][1]).t :
        i \in {j \in 2..Len(values) : parse_any_datetime(zone, values[j][1]).ok}}

\* the cells of column A that are not blank, header excluded
FilledRows(values) == {i \in 2..Len(values) : values[i][1].k \notin {"empty", "space"}}

\* the last non-blank cell of column A exists and is a readable timestamp
LastCellReadable(zone, values) ==
    /\ FilledRows(values) # {}
    /\ values[MaxOf(FilledRows(values))][1].k \in {"naive", "aware"}

\* this step is the append of run p
Appends(p) ==
    /\ run[p].pc = "append" /\ run'[p].outcome = "Admitted"
    /\ Len(log') = Len(log) + 1

\* C1 as stated: whatever the sheet holds, no run appends a record whose
\* instant is at or before the latest parsable timestamp already in the sheet,
\* and a non-decreasing timestamp column stays non-decreasing.
C1_NeverAtOrBeforeLatest ==
    [][\A p \in Procs :
          Appends(p) =>
              /\ \A t \in ParsedTimes(cfg.zone, log) : run[p].obs_ts > t
              /\ Monotone(cfg.zone, log) => Monotone(cfg.zone, log')]_vars

\* C1 amended: when the last non-blank cell of the timestamp column is a
\* readable timestamp and the column is non-decreasing, a run appends only an
\* observation whose instant is after every logged instant, and the column
\* with the new timestamp in it is still non-decreasing.
C1_NewerThanReadableLast ==
    [][\A p \in Procs :
          (Appends(p) /\ LastCellReadable(cfg.zone, log) /\ Monotone(cfg.zone, log)) =>
              /\ \A t \in ParsedTimes(cfg.zone, log) : run[p].obs_ts > t
              /\ Monotone(cfg.zone, log')]_vars

\* a run has appended a row behind a readable last timestamp
C1_Witness ==
    \E p \in Procs :
        /\ run[p].outcome = "Admitted"
        /\ run[p].last_ts.ok
        /\ LastCellReadable(cfg.zone, run[p].log0)
        /\ Len(log) = Len(run[p].log0) + 1

\* C2: a run that stands before its append either read no last instant, or
\* its observation is later than the last instant by at least the window.
C2_AdmittedIsNewerByWindow ==
    \A p \in Procs :
        run[p].pc = "append" =>
            \/ ~run[p].last_ts.ok
            \/ /\ run[p].obs_ts > run[p].last_ts.t
               /\ run[p].obs_ts - run[p].last_ts.t >= cfg.window * TicksPerSec

\* a run stands before its append with a last instant read
C2_Witness ==
    \E p \in Procs : run[p].pc = "append" /\ run[p].last_ts.ok /\ cfg.window > 0

Decisions == Skips \cup {"Admitted"}

\* the log as run p found it, with at most one row added at its end
AtMostOneRowAdded(p) ==
    \/ log = run[p].log0
    \/ /\ Len(log) = Len(run[p].log0) + 1
       /\ SubSeq(log, 1, Len(run[p].log0)) = run[p].log0

\* C3 as stated: every finished run has produced exactly one decision, has
\* added no row or one row, and has added a row exactly if it admitted.
C3_OneDecisionEveryRun ==
    \A p \in Procs :
        run[p].pc = "done" =>
            /\ run[p].decisions = 1
            /\ Len(log) - Len(run[p].log0) \in {0, 1}
            /\ (Len(log) = Len(run[p].log0) + 1) <=> (run[p].outcome = "Admitted")

\* C3 amended: a run that ends normally has produced exactly one decision and
\* a run that ends abnormally none; every run adds no row or one row, and adds
\* a row exactly if its decision is Admitted.
C3_OneDecisionPerCompletedRun ==
    \A p \in Procs :
        /\ run[p].decisions <= 1
        /\ Len(log) - Len(run[p].log0) \in {0, 1} \/ run[p].pc = "idle"
        /\ run[p].pc = "done" =>
              /\ run[p].decisions = IF run[p].outcome \in Fatal THEN 0 ELSE 1
              /\ run[p].outcome \in Decisions \cup Fatal
              /\ (Len(log) = Len(run[p].log0) + 1) <=> (run[p].outcome = "Admitted")

\* a run has admitted and added its one row
C3_Witness ==
    \E p \in Procs :
        /\ run[p].pc = "done" /\ run[p].outcome = "Admitted" /\ run[p].decisions = 1
        /\ Len(log) = Len(run[p].log0) + 1

\* C4: a run ends abnormally only on a configuration error or a failure of
\* the sheet; whatever the upstream request does, the run skips or admits.
C4_UpstreamNeverFatal ==
    \A p \in Procs :
        run[p].pc = "done" => run[p].outcome \in Decisions \cup {"ConfigError", "StoreError"}

\* the response lets the run normalise an observation timestamp
Normalizable(resp) ==
    /\ ~resp.raised /\ resp.status = 200 /\ resp.text = "json"
    /\ resp.json.t = "obj" /\ resp.json.observations.t = "list"
    /\ resp.json.observations.items[1].t = "obj"
    /\ resp.json.observations.items[1].obsTimeLocal.k \in {"naive", "aware"}

\* C5: a run that ends in an early skip has not opened, read or appended to
\* the sheet; the sheet is opened and read only for a response with a
\* normalisable timestamp, appended to only after the read; 204 is a skip.
C5_EarlySkipLeavesSheetAlone ==
    \A p \in Procs :
        /\ run[p].outcome \in EarlySkips =>
              /\ run[p].opens = 0 /\ run[p].reads = 0 /\ run[p].appends = 0
              /\ log = run[p].log0
        /\ (run[p].opens > 0 \/ run[p].reads > 0) => Normalizable(run[p].resp)
        /\ run[p].reads > 0 => run[p].opens > 0
        /\ run[p].appends > 0 => run[p].reads > 0
        /\ (run[p].pc = "done" /\ run[p].netCalls > 0 /\ ~run[p].resp.raised
               /\ run[p].resp.status = 204) => run[p].outcome = "NoData"

\* a run has ended on an observation without obsTimeLocal
C5_Witness ==
    \E p \in Procs :
        /\ run[p].pc = "done" /\ run[p].outcome = "MissingTimestamp"
        /\ run[p].netCalls = 1 /\ Len(run[p].log0) > 1

\* C6: with a required setting missing, a run ends in the configuration
\* error, having made no request and not opened, read or changed the sheet.
C6_MissingSettingStopsBeforeAnyIO ==
    \A p \in Procs :
        ((\E k \in EnvKeys : cfg.env[k] # "set") /\ run[p].pc # "idle") =>
            /\ run[p].pc = "done" /\ run[p].outcome = "ConfigError"
            /\ run[p].netCalls = 0 /\ run[p].opens = 0
            /\ run[p].reads = 0 /\ run[p].appends = 0
            /\ log = run[p].log0

\* a run has ended in the configuration error, one setting being blank
C6_Witness ==
    \E p \in Procs :
        /\ run[p].pc = "done" /\ run[p].outcome = "ConfigError"
        /\ cfg.env["STATION_ID"] = "spaces"
        /\ \A k \in EnvKeys \ {"STATION_ID"} : cfg.env[k] = "set"

\* run p has read the sheet and gone through the guard
ReadSucceeded(p) ==
    /\ run[p].reads > 0
    /\ ~(run[p].outcome = "StoreError" /\ run[p].appends = 0)

\* the guard has let run p through
GuardAdmitted(p) ==
    \/ run[p].pc = "append"
    \/ run[p].pc = "done" /\ run[p].outcome \in {"Admitted", "StoreError", "Crash"}

\* C7: against a last instant, an observation at that instant is skipped as
\* not newer whatever the window; a later one less than the window after it
\* is skipped as too soon; one exactly the window after it is admitted.
C7_GuardBoundaries ==
    \A p \in Procs :
        (ReadSucceeded(p) /\ run[p].last_ts.ok) =>
            LET d == run[p].obs_ts - run[p].last_ts.t
            IN  /\ run[p].pc \in {"append", "done"}
                /\ d = 0 => run[p].outcome = "NotNewer"
                /\ (d > 0 /\ d < cfg.window * TicksPerSec) => run[p].outcome = "TooSoon"
                /\ (d > 0 /\ d = cfg.window * TicksPerSec) => GuardAdmitted(p)

\* an observation exactly one window after the last instant stands before its append
C7_Witness ==
    \E p \in Procs :
        /\ run[p].pc = "append" /\ run[p].last_ts.ok /\ cfg.window > 0
        /\ run[p].obs_ts - run[p].last_ts.t = cfg.window * TicksPerSec

\* C8: when the sheet yields no last instant (no data row, only blank cells,
\* or an unreadable last timestamp), the guard admits the observation whatever
\* its instant and the window: the run is never skipped, and when it ends
\* normally its row is the new last row of the sheet.
C8_NoLastInstantAdmits ==
    \A p \in Procs :
        (ReadSucceeded(p) /\ ~LastCellReadable(cfg.zone, run[p].log0)) =>
            /\ ~run[p].last_ts.ok
            /\ GuardAdmitted(p)
            /\ (run[p].pc = "done" /\ run[p].outcome \notin Fatal) =>
                  /\ run[p].outcome = "Admitted"
                  /\ Len(log) = Len(run[p].log0) + 1
                  /\ log[Len(log)][1] = Strftime(cfg.zone, run[p].obs_ts)

\* a row was appended behind an unreadable last timestamp with a positive window
C8_Witness ==
    \E p \in Procs :
        /\ run[p].outcome = "Admitted" /\ cfg.window > 0
        /\ Len(run[p].log0) > 1
        /\ run[p].log0[Len(run[p].log0)][1] = Bad
        /\ Len(log) = Len(run[p].log0) + 1

\* C9: whatever a run has done so far, the sheet is the sheet it started
\* from, or that sheet with one row added at its end.
C9_AppendOnly ==
    \A p \in Procs : run[p].pc # "idle" => AtMostOneRowAdded(p)

\* a run has added its row to a sheet that already held data rows
C9_Witness ==
    \E p \in Procs :
        /\ run[p].pc = "done" /\ Len(run[p].log0) > 2
        /\ Len(log) = Len(run[p].log0) + 1
        /\ SubSeq(log, 1, Len(run[p].log0)) = run[p].log0

\* C10 as stated: a run that gets the same upstream data as the run before it
\* comes to the same decision as that run.
C10_RerunSameDecision ==
    \A p \in Procs :
        (run[p].pc = "done" /\ run[p].same
            /\ run[p].prevOutcome \in Decisions /\ run[p].outcome \in Decisions) =>
            run[p].outcome = run[p].prevOutcome

\* C10 amended: a run that gets the same upstream data as the run before it
\* comes to the same decision if that run skipped; if that run admitted and
\* the window is at least one second, it skips as not newer or too soon.
C10_RerunAfterSkipOrAdmit ==
    \A p \in Procs :
        (run[p].pc = "done" /\ run[p].same /\ run[p].outcome \in Decisions) =>
            /\ run[p].prevOutcome \in Skips => run[p].outcome = run[p].prevOutcome
            /\ (run[p].prevOutcome = "Admitted" /\ cfg.window >= 1) =>
                  run[p].outcome \in {"NotNewer", "TooSoon"}

\* the rerun of an admitted run has skipped
C10_Witness ==
    \E p \in Procs :
        /\ run[p].pc = "done" /\ run[p].same /\ cfg.window >= 1
        /\ run[p].prevOutcome = "Admitted"
        /\ run[p].outcome \in {"NotNewer", "TooSoon"}

\* C11 as stated: with invocations that overlap and a store whose reads and
\* appends are atomic, a non-decreasing timestamp column whose last non-blank
\* cell is readable stays non-decreasing.
C11_OverlapKeepsMonotone ==
    [][(Monotone(cfg.zone, log) /\ LastCellReadable(cfg.zone, log)) =>
          Monotone(cfg.zone, log')]_vars

\* C11 amended: with invocations that overlap, an append keeps the column
\* non-decreasing when no row was added to the sheet between the read of the
\* appending run and its append; the run itself holds no lock in between.
C11_MonotoneIfNoAppendBetween ==
    [][\A p \in Procs :
          (Appends(p) /\ Len(log) = run[p].seen
              /\ LastCellReadable(cfg.zone, log) /\ Monotone(cfg.zone, log)) =>
              /\ \A t \in ParsedTimes(cfg.zone, log) : run[p].obs_ts > t
              /\ Monotone(cfg.zone, log')]_vars

\* one run has appended behind the last timestamp it read while another run,
\* which read the same sheet, stands before its own append
C11_Witness ==
    \E p, q \in Procs :
        /\ p # q
        /\ run[p].outcome = "Admitted" /\ run[p].last_ts.ok
        /\ Len(log) = run[p].seen + 1
        /\ run[q].pc = "append" /\ run[q].last_ts.ok /\ run[q].seen = run[p].seen

\* C12: once a run has appended its row, the timestamp read back from the
\* sheet by get_last_logged_timestamp is, to the second, the instant of the
\* observation that the run admitted.
C12_RoundTrip ==
    \A p \in Procs :
        (run[p].pc = "done" /\ run[p].outcome = "Admitted"
            /\ Len(log) = Len(run[p].log0) + 1) =>
            /\ get_last_logged_timestamp(cfg.zone, log).ok
            /\ get_last_logged_timestamp(cfg.zone, log).t \div TicksPerSec
                  = run[p].obs_ts \div TicksPerSec

\* the value a column must hold: the reported value, or empty when the key is
\* missing, the metric sub-object is missing, or the value is null
Column(v) == IF v \in {"absent", "null"} THEN "" ELSE v

MetricField(obs, k) == IF obs.metric.t = "obj" THEN obs.metric.fields[k] ELSE "absent"

\* C13: the row a run is about to append has nine columns in the fixed order
\* timestamp, temp, windSpeed, windGust, winddir, precipRate, precipTotal,
\* pressure, humidity, and a metric that is not available is the empty value.
C13_NineColumnsEmptyForMissing ==
    \A p \in Procs :
        run[p].pc = "append" =>
            LET obs == FirstObs(run[p].resp.json)
            IN  run[p].row =
                  << Strftime(cfg.zone, run[p].obs_ts),
                     Column(MetricField(obs, "temp")), Column(MetricField(obs, "windSpeed")),
                     Column(MetricField(obs, "windGust")), Column(obs.winddir),
                     Column(MetricField(obs, "precipRate")), Column(MetricField(obs, "precipTotal")),
                     Column(MetricField(obs, "pressure")), Column(obs.humidity) >>

\* C14 as stated: the last instant a run reads is none only if the sheet has
\* no data row with a parsable timestamp.
C14_NoneOnlyIfNothingParsable ==
    \A p \in Procs :
        (ReadSucceeded(p) /\ ParsedTimes(cfg.zone, run[p].log0) # {}) => run[p].last_ts.ok

\* C14 amended: the last instant a run reads is the instant of the last
\* non-blank timestamp cell below the header, every cell under it being blank;
\* it is none exactly if there is no such cell or that cell is unparsable,
\* whatever the rows above it hold.
C14_LastNonBlankCellDecides ==
    \A p \in Procs :
        ReadSucceeded(p) =>
            /\ run[p].last_ts.ok <=> LastCellReadable(cfg.zone, run[p].log0)
            /\ run[p].last_ts.ok =>
                  \E i \in 2..Len(run[p].log0) :
                      /\ run[p].log0[i][1].k \in {"naive", "aware"}
                      /\ run[p].last_ts = parse_any_datetime(cfg.zone, run[p].log0[i][1])
                      /\ \A j \in (i + 1)..Len(run[p].log0) :
                            run[p].log0[j][1].k \in {"empty", "space"}

\* a run has read the timestamp of the row above a blank last row
C14_Witness ==
    \E p \in Procs :
        /\ ReadSucceeded(p) /\ run[p].last_ts.ok
        /\ Len(run[p].log0) = 3
        /\ run[p].log0[3][1] = Empty

\* run p has made its request and got a response
Fetched(p) == run[p].netCalls > 0 /\ ~run[p].resp.raised

\* the body is valid JSON whose observations list is empty or absent
NoObservations(resp) ==
    /\ resp.status = 200 /\ resp.text = "json"
    /\ \/ resp.json.t = "emptyobj"
       \/ resp.json.t = "obj" /\ resp.json.observations.t \in {"absent", "emptylist"}

\* the body is valid JSON whose observations list starts with an observation
HasObservation(resp) ==
    /\ resp.status = 200 /\ resp.text = "json" /\ resp.json.t = "obj"
    /\ resp.json.observations.t = "list"
    /\ resp.json.observations.items[1].t = "obj"

\* C15: 204 is NoData; a status other than 200 is ApiError; 200 with an empty
\* or non-JSON body is ApiError; 200 with JSON whose observations are empty or
\* absent (the empty object included) is EmptyObservations; 200 with an
\* observation goes on with the first entry alone.
C15_Classification ==
    \A p \in Procs :
        Fetched(p) =>
            /\ run[p].resp.status = 204 => run[p].outcome = "NoData"
            /\ run[p].resp.status \notin {200, 204} => run[p].outcome = "ApiError"
            /\ (run[p].resp.status = 200 /\ run[p].resp.text \in {"empty", "nonjson"}) =>
                  run[p].outcome = "ApiError"
            /\ NoObservations(run[p].resp) => run[p].outcome = "EmptyObservations"
            /\ HasObservation(run[p].resp) =>
                  /\ run[p].outcome \notin {"NoData", "ApiError", "EmptyObservations"}
                  /\ run[p].pc \in {"read", "append"} =>
                        run[p].obs_ts =
                            parse_any_datetime(cfg.zone, run[p].resp.json.observations.items[1].obsTimeLocal).t

\* C16: a run makes at most one request, opens and reads the sheet at most
\* once and appends at most once, in that order, and every run that was
\* entered comes to its end.
C16_OnePassAndTerminates ==
    /\ [](\A p \in Procs :
             /\ run[p].netCalls <= 1 /\ run[p].opens <= 1
             /\ run[p].reads <= 1 /\ run[p].appends <= 1
             /\ run[p].opens <= run[p].netCalls
             /\ run[p].reads <= run[p].opens
             /\ run[p].appends <= run[p].reads)
    /\ \A p \in Procs : (run[p].pc \notin {"idle", "done"}) ~> (run[p].pc = "done")

\* a run has ended after one request, one read and one append
C16_Witness ==
    \E p \in Procs :
        /\ run[p].pc = "done"
        /\ run[p].netCalls = 1 /\ run[p].opens = 1
        /\ run[p].reads = 1 /\ run[p].appends = 1

\* C17: a run that ended right after opening the sheet, or after reading it
\* without a guard skip, ended abnormally with no append attempted and the
\* sheet unchanged; a run whose store access failed has made one attempt at
\* most at each store call and has reported neither a skip nor success.
C17_StoreFailureIsFatal ==
    \A p \in Procs :
        /\ (run[p].pc = "done" /\ run[p].opens = 1 /\ run[p].reads = 0) =>
              run[p].outcome = "StoreError"
        /\ (run[p].pc = "done" /\ run[p].reads = 1 /\ run[p].appends = 0) =>
              run[p].outcome \in {"StoreError", "NotNewer", "TooSoon", "Crash"}
        /\ (run[p].pc = "done" /\ run[p].appends = 1) =>
              run[p].outcome \in {"StoreError", "Admitted"}
        /\ run[p].outcome = "StoreError" =>
              /\ run[p].pc = "done" /\ run[p].decisions = 0
              /\ run[p].opens = 1 /\ run[p].reads <= 1 /\ run[p].appends <= 1
              /\ run[p].appends = 0 => log = run[p].log0

\* a run has ended on an append that the store refused
C17_Witness ==
    \E p \in Procs :
        /\ run[p].pc = "done" /\ run[p].outcome = "StoreError"
        /\ run[p].appends = 1 /\ run[p].decisions = 0

\* C18: on a sheet that started with the header row only, with a window of one
\* second or more and runs that do not overlap, every data row holds a readable
\* timestamp, each row's timestamp text is strictly later than the one before
\* it, and the instants read back from two consecutive rows are at least the
\* window apart: no instant is logged twice.
C18_RowsIncreaseByWindow ==
    \A i \in 2..(Len(log) - 1) :
        LET a == parse_any_datetime(cfg.zone, log[i][1])
            b == parse_any_datetime(cfg.zone, log[i + 1][1])
        IN  /\ a.ok /\ b.ok
            /\ log[i][1].v < log[i + 1][1].v
            /\ a.t < b.t
            /\ b.t - a.t >= cfg.window * TicksPerSec

\* three data rows were logged by three runs, the last one just admitted
C18_Witness ==
    /\ Len(log) = 4
    /\ \E p \in Procs : run[p].pc = "done" /\ run[p].outcome = "Admitted"

====
